---- MODULE Spec2Model ----
(***************************************************************************)
(* Model of winlogbeat/checkpoint/checkpoint.go: the Checkpoint type, its  *)
(* worker goroutine (run), the public methods NewCheckpoint, Persist,      *)
(* States and Shutdown, and the disk writer (persist, flush, read).        *)
(*                                                                         *)
(* Goroutines are interleaved at the granularity of their blocking        *)
(* operations (channel send/receive, select, lock, once, wait group) and   *)
(* of their file-system calls.                                             *)
(***************************************************************************)
EXTENDS Integers, Sequences, FiniteSets, TLC

\* ------------------------------------------------------------------ bounds
\* Total number of Persist calls made by all callers.
MaxOps == 2

\* --------------------------------------------------------------- universes
\* The goroutines that call Persist and Shutdown, and the one that calls
\* States.
Callers == {"p1", "p2"}
Readers == {"r"}
Procs == Callers \cup Readers
\* Event log names, listed in the byte order sort.Strings gives them.
NameOrder == <<"App", "Sys">>
Names == {NameOrder[i] : i \in 1..Len(NameOrder)}
\* The record numbers callers report.
RecordNumbers == {1, 2}
\* The maxUpdates arguments handed to NewCheckpoint (0 is below the floor).
MaxUpdatesArgs == {0, 1, 2}

\* The time at which a caller read record number r (callers stamp every
\* record they report with the time of that record).
TimeOf(r) == 10 + r

\* EventLogState: the state of an individual event log. The values callers
\* hand to Persist.
EventLogState ==
    {[Name |-> n, RecordNumber |-> r, Timestamp |-> TimeOf(r)] :
        n \in Names, r \in RecordNumbers}

\* A file that does not exist, a file that yaml.Unmarshal rejects (or that
\* holds only part of a document), and a file of zero bytes.
Absent == [kind |-> "absent"]
Corrupt == [kind |-> "corrupt"]
Empty == [kind |-> "empty"]

VARIABLES
    disk,        \* contents of c.file
    tmp,         \* contents of c.file + ".new"
    handle,      \* result of NewCheckpoint: "none" (not called), "open", "error"
    maxUpdates,  \* c.maxUpdates
    numUpdates,  \* c.numUpdates
    states,      \* c.states (map from name to EventLogState)
    save,        \* c.save: the buffered channel
    done,        \* c.done is closed
    once,        \* c.once: "fresh", "running" (f is executing), "done"
    wg,          \* c.wg counter
    wlocked,     \* c.lock is held by a writer
    rlocked,     \* the goroutines holding c.lock for reading
    wpc,         \* position of the worker goroutine
    s,           \* the worker's local s (the update it received)
    looping,     \* the worker is inside its loop (FALSE after break loop)
    pc,          \* position of every calling goroutine
    arg,         \* the EventLogState a caller is sending in Persist
    copy,        \* the map a caller of States has built (and holds, once
                 \* States has returned it)
    calls,       \* history: number of Persist calls made
    seed,        \* history: the map as NewCheckpoint loaded it
    lastSent,    \* history: per name, the last update placed in c.save
    atClose,     \* history: the updates placed in c.save before Shutdown
                 \* was first called, less the names sent again since
    failed,      \* history: some flush returned an error
    returned,    \* history: number of Shutdown calls that returned (2: two
                 \* or more)
    finalFlushes,\* history: number of flush calls made after the loop
    panicked     \* history: a goroutine panicked (close of a closed channel)

vars == <<disk, tmp, handle, maxUpdates, numUpdates, states, save, done, once,
          wg, wlocked, rlocked, wpc, s, looping, pc, arg, copy, calls, seed,
          lastSent, atClose, failed, returned, finalFlushes, panicked>>

\* ------------------------------------------------------------------ helpers
NoState == [Name |-> "", RecordNumber |-> 0, Timestamp |-> 0]
EmptyMap == [n \in {} |-> NoState]

\* Position of a name in the order of sort.Strings.
NameIndex(n) == CHOOSE i \in 1..Len(NameOrder) : NameOrder[i] = n

\* Variant of StringLess: the comparison is the other way round.
StringLessReversed(a, b) == NameIndex(b) < NameIndex(a)

\* a < b for strings, as sort.Strings compares them.
StringLess(a, b) == NameIndex(a) < NameIndex(b)

\* sort.Strings over the keys collected from the map.
RECURSIVE SortStrings(_)
SortStrings(S) ==
    IF S = {} THEN <<>>
    ELSE LET m == CHOOSE x \in S : \A y \in S : x = y \/ StringLess(x, y)
         IN <<m>> \o SortStrings(S \ {m})

\* Variant of BuildPersistedState: the loop over the sorted keys stops after
\* the first one.
BuildPersistedStateFirst(st) ==
    LET keys == SortStrings(DOMAIN st)
    IN [kind |-> "yaml",
        event_logs |-> [i \in 1..(IF keys = <<>> THEN 0 ELSE 1) |-> st[keys[i]]]]

\* Variant of BuildPersistedState: only a part of the document reaches the
\* temporary file and no error is seen.
BuildPersistedStatePartial(st) == Corrupt

\* The document flush builds and marshals: the map's values in the order of
\* the sorted keys. (Its update_time field, which nothing reads back, is left
\* out of the model.)
BuildPersistedState(st) ==
    LET keys == SortStrings(DOMAIN st)
    IN [kind |-> "yaml",
        event_logs |-> [i \in 1..Len(keys) |-> st[keys[i]]]]

\* yaml.Unmarshal of a file's contents into a PersistedState; a file of zero
\* bytes decodes to the zero value.
Unmarshal(contents) ==
    IF contents = Empty THEN [kind |-> "yaml", event_logs |-> <<>>]
    ELSE contents

\* Variant of StoreState: an update for a name the map already has is
\* dropped.
StoreStateFirst(st, u) ==
    IF u.Name \in DOMAIN st THEN st
    ELSE [n \in DOMAIN st \cup {u.Name} |-> IF n = u.Name THEN u ELSE st[n]]

\* Variant of StoreState: an entry that exists keeps its Timestamp.
StoreStateMerged(st, u) ==
    [n \in DOMAIN st \cup {u.Name} |->
        IF n # u.Name THEN st[n]
        ELSE IF n \in DOMAIN st
             THEN [Name |-> n, RecordNumber |-> u.RecordNumber,
                   Timestamp |-> st[n].Timestamp]
             ELSE u]

\* c.states[s.Name] = s
StoreState(st, u) ==
    [n \in DOMAIN st \cup {u.Name} |-> IF n = u.Name THEN u ELSE st[n]]

\* Variant of LoadStates: the loaded document is not copied into the map.
LoadStatesNone(st, logs) == st

\* The loop of NewCheckpoint: c.states[state.Name] = state for every state
\* of the loaded document, in order.
RECURSIVE LoadStates(_, _)
LoadStates(st, logs) ==
    IF logs = <<>> THEN st
    ELSE LoadStates([n \in DOMAIN st \cup {Head(logs).Name} |->
                        IF n = Head(logs).Name THEN Head(logs) ELSE st[n]],
                    Tail(logs))

\* History: m with the entry of u's name set to u.
Noted(m, u) == (u.Name :> u) @@ m

\* History: m without the entry of u's name.
Forgotten(m, u) == [n \in DOMAIN m \ {u.Name} |-> m[n]]

\* Minimum batch size.
ClampMaxUpdates(m) == IF m < 1 THEN 1 ELSE m

\* Variant of Dirty: persist always calls flush.
DirtyAlways == TRUE

\* persist's test for a dirty in-memory state.
Dirty == numUpdates # 0

\* Variant of CountAfterFlush: the counter is reset after a failed flush too.
CountAfterFlushReset(err) == 0

\* c.numUpdates when persist returns: reset after a flush without error.
CountAfterFlush(err) == IF err THEN numUpdates ELSE 0

\* Variant of BelowBatch: the batch is one update larger than maxUpdates.
BelowBatchOrEqual(n) == n <= maxUpdates

\* run's test after counting an update: continue without persisting.
BelowBatch(n) == n < maxUpdates

\* Variant of SaveCap: the channel buffers one update more.
SaveCapTwo == 1 + 1

\* Capacity of the save channel.
SaveCap == 1

\* The tables a previous run of the program may have left on disk.
SeedTables ==
    {[n \in {"Sys"} |-> [Name |-> n, RecordNumber |-> 1, Timestamp |-> TimeOf(1)]]}

InitialFiles ==
    {Absent, Corrupt} \cup {BuildPersistedState(t) : t \in SeedTables}

\* --------------------------------------------------------------------- Init
\* NewCheckpoint has built the Checkpoint value and raised maxUpdates to its
\* minimum; it has not yet read the file.
Init ==
    /\ disk \in InitialFiles
    /\ tmp = Absent
    /\ handle = "none"
    /\ maxUpdates \in {ClampMaxUpdates(m) : m \in MaxUpdatesArgs}
    /\ numUpdates = 0
    /\ states = EmptyMap
    /\ save = <<>>
    /\ done = FALSE
    /\ once = "fresh"
    /\ wg = 0
    /\ wlocked = FALSE
    /\ rlocked = {}
    /\ wpc = "none"
    /\ s = NoState
    /\ looping = FALSE
    /\ pc = [p \in Procs |-> "idle"]
    /\ arg = [p \in Callers |-> NoState]
    /\ copy = [p \in Readers |-> EmptyMap]
    /\ calls = 0
    /\ seed = EmptyMap
    /\ lastSent = EmptyMap
    /\ atClose = EmptyMap
    /\ failed = FALSE
    /\ returned = 0
    /\ finalFlushes = 0
    /\ panicked = FALSE

\* ------------------------------------------------------------ NewCheckpoint
\* read fails: the file exists and cannot be read or parsed.
NewCheckpointError ==
    /\ handle = "none"
    /\ disk = Corrupt
    /\ handle' = "error"
    /\ UNCHANGED <<disk, tmp, maxUpdates, numUpdates, states, save, done, once,
                   wg, wlocked, rlocked, wpc, s, looping, pc, arg, copy, calls,
                   seed, lastSent, atClose, failed, returned, finalFlushes,
                   panicked>>

\* read succeeds (or the file does not exist): seed the map, start the worker.
NewCheckpointOk ==
    /\ handle = "none"
    /\ disk # Corrupt
    /\ states' = IF disk = Absent THEN EmptyMap
                 ELSE LoadStates(EmptyMap, Unmarshal(disk).event_logs)
    /\ seed' = states'
    /\ wg' = 1
    /\ wpc' = "start"
    /\ handle' = "open"
    /\ UNCHANGED <<disk, tmp, maxUpdates, numUpdates, save, done, once, wlocked,
                   rlocked, s, looping, pc, arg, copy, calls, lastSent, atClose,
                   failed, returned, finalFlushes, panicked>>

\* --------------------------------------------------------------- run (worker)
\* defer c.wg.Done(); flushTimer := time.NewTimer(c.flushInterval); enter loop.
RunStart ==
    /\ wpc = "start"
    /\ looping' = TRUE
    /\ wpc' = "select"
    /\ UNCHANGED <<disk, tmp, handle, maxUpdates, numUpdates, states, save, done,
                   once, wg, wlocked, rlocked, s, pc, arg, copy, calls, seed,
                   lastSent, atClose, failed, returned, finalFlushes, panicked>>

\* Variant of SelectDone: the worker returns from the loop without the
\* final persist.
SelectDoneReturn ==
    /\ wpc = "select"
    /\ done
    /\ looping' = FALSE
    /\ wpc' = "terminated"
    /\ wg' = wg - 1
    /\ UNCHANGED <<disk, tmp, handle, maxUpdates, numUpdates, states, save, done,
                   once, wlocked, rlocked, s, pc, arg, copy, calls, seed,
                   lastSent, atClose, failed, returned, finalFlushes, panicked>>

\* case <-c.done: break loop
SelectDone ==
    /\ wpc = "select"
    /\ done
    /\ looping' = FALSE
    /\ wpc' = "persist"
    /\ UNCHANGED <<disk, tmp, handle, maxUpdates, numUpdates, states, save, done,
                   once, wg, wlocked, rlocked, s, pc, arg, copy, calls, seed,
                   lastSent, atClose, failed, returned, finalFlushes, panicked>>

\* case s := <-c.save:
SelectSave ==
    /\ wpc = "select"
    /\ save # <<>>
    /\ s' = Head(save)
    /\ save' = Tail(save)
    /\ wpc' = "lock"
    /\ UNCHANGED <<disk, tmp, handle, maxUpdates, numUpdates, states, done, once,
                   wg, wlocked, rlocked, looping, pc, arg, copy, calls, seed,
                   lastSent, atClose, failed, returned, finalFlushes, panicked>>

\* Variant of SelectTimer: flushTimer never ticks.
SelectTimerNever ==
    /\ wpc = "select"
    /\ FALSE
    /\ UNCHANGED vars

\* case <-flushTimer.C: time is not measured, so flushInterval may have
\* elapsed at any select. (flushTimer is started before the loop and reset
\* after every persist of the loop, so at every select it is running or its
\* tick is waiting in flushTimer.C.)
SelectTimer ==
    /\ wpc = "select"
    /\ wpc' = "persist"
    /\ UNCHANGED <<disk, tmp, handle, maxUpdates, numUpdates, states, save, done,
                   once, wg, wlocked, rlocked, s, looping, pc, arg, copy, calls,
                   seed, lastSent, atClose, failed, returned, finalFlushes,
                   panicked>>

\* c.lock.Lock()
RunLock ==
    /\ wpc = "lock"
    /\ ~wlocked
    /\ rlocked = {}
    /\ wlocked' = TRUE
    /\ wpc' = "store"
    /\ UNCHANGED <<disk, tmp, handle, maxUpdates, numUpdates, states, save, done,
                   once, wg, rlocked, s, looping, pc, arg, copy, calls, seed,
                   lastSent, atClose, failed, returned, finalFlushes, panicked>>

\* c.states[s.Name] = s; c.lock.Unlock(); c.numUpdates++;
\* if c.numUpdates < c.maxUpdates { continue }
RunStore ==
    /\ wpc = "store"
    /\ states' = StoreState(states, s)
    /\ s' = NoState
    /\ wlocked' = FALSE
    /\ numUpdates' = numUpdates + 1
    /\ wpc' = IF BelowBatch(numUpdates + 1) THEN "select" ELSE "persist"
    /\ UNCHANGED <<disk, tmp, handle, maxUpdates, save, done, once, wg, rlocked,
                   looping, pc, arg, copy, calls, seed, lastSent, atClose,
                   failed, returned, finalFlushes, panicked>>

\* Variant of AfterPersist: after the final persist the deferred c.wg.Done()
\* runs and the worker selects again.
AfterPersistAgain ==
    /\ wpc' = "select"
    /\ wg' = IF looping THEN wg ELSE wg - 1

\* What follows a call of persist. Inside the loop:
\* flushTimer.Reset(c.flushInterval) and select again. After the loop: the
\* deferred flushTimer.Stop() and c.wg.Done() run and the goroutine ends.
AfterPersist ==
    /\ wpc' = IF looping THEN "select" ELSE "terminated"
    /\ wg' = IF looping THEN wg ELSE wg - 1

\* -------------------------------------------------------------------- persist
\* if c.numUpdates == 0 { return false }
PersistClean ==
    /\ wpc = "persist"
    /\ ~Dirty
    /\ AfterPersist
    /\ UNCHANGED <<disk, tmp, handle, maxUpdates, numUpdates, states, save, done,
                   once, wlocked, rlocked, s, looping, pc, arg, copy, calls,
                   seed, lastSent, atClose, failed, returned, finalFlushes,
                   panicked>>

\* ---------------------------------------------------------------------- flush
\* persist calls flush; os.Create(tempFile) succeeds: the temporary file
\* exists and is empty.
FlushCreate ==
    /\ wpc = "persist"
    /\ Dirty
    /\ tmp' = Empty
    /\ wpc' = "write"
    /\ finalFlushes' = IF looping THEN finalFlushes ELSE finalFlushes + 1
    /\ UNCHANGED <<disk, handle, maxUpdates, numUpdates, states, save, done, once,
                   wg, wlocked, rlocked, s, looping, pc, arg, copy, calls, seed,
                   lastSent, atClose, failed, returned, panicked>>

\* persist calls flush; os.Create fails: flush returns the error, persist
\* logs it and returns false.
FlushCreateFail ==
    /\ wpc = "persist"
    /\ Dirty
    /\ failed' = TRUE
    /\ finalFlushes' = IF looping THEN finalFlushes ELSE finalFlushes + 1
    /\ numUpdates' = CountAfterFlush(TRUE)
    /\ AfterPersist
    /\ UNCHANGED <<disk, tmp, handle, maxUpdates, states, save, done, once,
                   wlocked, rlocked, s, looping, pc, arg, copy, calls, seed,
                   lastSent, atClose, returned, panicked>>

\* Sort the names, build the PersistedState, yaml.Marshal it and file.Write it.
FlushWrite ==
    /\ wpc = "write"
    /\ tmp' = BuildPersistedState(states)
    /\ wpc' = "rename"
    /\ UNCHANGED <<disk, handle, maxUpdates, numUpdates, states, save, done, once,
                   wg, wlocked, rlocked, s, looping, pc, arg, copy, calls, seed,
                   lastSent, atClose, failed, returned, finalFlushes, panicked>>

\* yaml.Marshal or file.Write fails: file.Close(), return the error. The
\* temporary file is left holding a part of the document (none of it, after
\* a failed Marshal).
FlushWriteFail ==
    /\ wpc = "write"
    /\ failed' = TRUE
    /\ tmp' \in {Empty, Corrupt}
    /\ numUpdates' = CountAfterFlush(TRUE)
    /\ AfterPersist
    /\ UNCHANGED <<disk, handle, maxUpdates, states, save, done, once, wlocked,
                   rlocked, s, looping, pc, arg, copy, calls, seed, lastSent,
                   atClose, returned, finalFlushes, panicked>>

\* file.Close(); os.Rename(tempFile, c.file) succeeds; persist resets
\* c.numUpdates and returns true.
FlushRename ==
    /\ wpc = "rename"
    /\ disk' = tmp
    /\ tmp' = Absent
    /\ numUpdates' = CountAfterFlush(FALSE)
    /\ AfterPersist
    /\ UNCHANGED <<handle, maxUpdates, states, save, done, once, wlocked, rlocked,
                   s, looping, pc, arg, copy, calls, seed, lastSent, atClose,
                   failed, returned, finalFlushes, panicked>>

\* os.Rename fails: both files stay as they are; persist returns false.
FlushRenameFail ==
    /\ wpc = "rename"
    /\ failed' = TRUE
    /\ numUpdates' = CountAfterFlush(TRUE)
    /\ AfterPersist
    /\ UNCHANGED <<disk, tmp, handle, maxUpdates, states, save, done, once,
                   wlocked, rlocked, s, looping, pc, arg, copy, calls, seed,
                   lastSent, atClose, returned, finalFlushes, panicked>>

\* -------------------------------------------------------------------- Persist
\* A caller enters Persist(name, recordNumber, ts) and finds room in the
\* channel's buffer: c.save <- EventLogState{...} completes, Persist returns.
Persist(p, u) ==
    /\ handle = "open"
    /\ pc[p] = "idle"
    /\ calls < MaxOps
    /\ calls' = calls + 1
    /\ Len(save) < SaveCap
    /\ save' = Append(save, u)
    /\ lastSent' = Noted(lastSent, u)
    /\ atClose' = IF done THEN Forgotten(atClose, u) ELSE atClose
    /\ UNCHANGED <<disk, tmp, handle, maxUpdates, numUpdates, states, done, once,
                   wg, wlocked, rlocked, wpc, s, looping, pc, arg, copy, seed,
                   failed, returned, finalFlushes, panicked>>

\* A caller enters Persist and finds the buffer full: the send blocks.
PersistBlock(p, u) ==
    /\ handle = "open"
    /\ pc[p] = "idle"
    /\ calls < MaxOps
    /\ calls' = calls + 1
    /\ ~(Len(save) < SaveCap)
    /\ pc' = [pc EXCEPT ![p] = "Persist"]
    /\ arg' = [arg EXCEPT ![p] = u]
    /\ UNCHANGED <<disk, tmp, handle, maxUpdates, numUpdates, states, save, done,
                   once, wg, wlocked, rlocked, wpc, s, looping, copy, seed,
                   lastSent, atClose, failed, returned, finalFlushes, panicked>>

\* A blocked send completes once the buffer has room; Persist returns.
PersistSend(p) ==
    /\ pc[p] = "Persist"
    /\ Len(save) < SaveCap
    /\ save' = Append(save, arg[p])
    /\ lastSent' = Noted(lastSent, arg[p])
    /\ atClose' = IF done THEN Forgotten(atClose, arg[p]) ELSE atClose
    /\ pc' = [pc EXCEPT ![p] = "idle"]
    /\ arg' = [arg EXCEPT ![p] = NoState]
    /\ UNCHANGED <<disk, tmp, handle, maxUpdates, numUpdates, states, done, once,
                   wg, wlocked, rlocked, wpc, s, looping, copy, calls, seed,
                   failed, returned, finalFlushes, panicked>>

\* --------------------------------------------------------------------- States
\* Variant of CanRLock: States copies the map without regard to the writer.
CanRLockAlways == TRUE

\* c.lock.RLock() can be granted: no writer holds or awaits the lock.
CanRLock == ~wlocked /\ wpc # "lock"

\* A caller enters States() and has to wait in c.lock.RLock().
StatesBlock(p) ==
    /\ handle = "open"
    /\ pc[p] = "idle"
    /\ ~CanRLock
    /\ pc' = [pc EXCEPT ![p] = "RLock"]
    /\ UNCHANGED <<disk, tmp, handle, maxUpdates, numUpdates, states, save, done,
                   once, wg, wlocked, rlocked, wpc, s, looping, arg, copy, calls,
                   seed, lastSent, atClose, failed, returned, finalFlushes,
                   panicked>>

\* c.lock.RLock() is granted, to a caller entering States() or to one that
\* waited; the caller copies every entry of c.states into a new map.
StatesCopy(p) ==
    /\ handle = "open"
    /\ pc[p] \in {"idle", "RLock"}
    /\ CanRLock
    /\ rlocked' = rlocked \cup {p}
    /\ copy' = [copy EXCEPT ![p] = [n \in DOMAIN states |-> states[n]]]
    /\ pc' = [pc EXCEPT ![p] = "RUnlock"]
    /\ UNCHANGED <<disk, tmp, handle, maxUpdates, numUpdates, states, save, done,
                   once, wg, wlocked, wpc, s, looping, arg, calls, seed,
                   lastSent, atClose, failed, returned, finalFlushes, panicked>>

\* Variant of Returned: States returns c.states itself.
ReturnedStates == "states"

\* return copy: the map the caller of States receives is the one States made
\* ("copy"), not the map of the Checkpoint ("states").
Returned == "copy"

\* The contents of the map caller p received from States.
Held(p) == IF Returned = "states" THEN states ELSE copy[p]

\* The deferred c.lock.RUnlock() runs and States returns the map to its
\* caller, who holds it.
StatesReturn(p) ==
    /\ pc[p] = "RUnlock"
    /\ rlocked' = rlocked \ {p}
    /\ pc' = [pc EXCEPT ![p] = "held"]
    /\ UNCHANGED <<disk, tmp, handle, maxUpdates, numUpdates, states, save, done,
                   once, wg, wlocked, wpc, s, looping, arg, copy, calls, seed,
                   lastSent, atClose, failed, returned, finalFlushes, panicked>>

\* The caller changes the map it received (it deletes every entry) and is
\* done with it.
CallerClears(p) ==
    /\ pc[p] = "held"
    /\ IF Returned = "states"
       THEN states' = EmptyMap /\ copy' = copy
       ELSE copy' = [copy EXCEPT ![p] = EmptyMap] /\ states' = states
    /\ pc' = [pc EXCEPT ![p] = "idle"]
    /\ UNCHANGED <<disk, tmp, handle, maxUpdates, numUpdates, save, done, once,
                   wg, wlocked, rlocked, wpc, s, looping, arg, calls, seed,
                   lastSent, atClose, failed, returned, finalFlushes, panicked>>

\* ------------------------------------------------------------------- Shutdown
\* Variant of OnceDone: a call that finds f executing does not wait for it.
OnceDoneEarly == once # "fresh"

\* c.once: f has run to completion.
OnceDone == once = "done"

\* Variant of OnceFresh: Shutdown runs f on every call.
OnceFreshAlways == TRUE

\* c.once: no call of Do has started f.
OnceFresh == once = "fresh"

\* A caller enters Shutdown() and is the first to reach c.once.Do: it runs
\* f, which does close(c.done) and then waits in c.wg.Wait(). Closing a
\* closed channel panics.
ShutdownFirst(p) ==
    /\ handle = "open"
    /\ pc[p] = "idle"
    /\ OnceFresh
    /\ once' = "running"
    /\ done' = TRUE
    /\ panicked' = (panicked \/ done)
    /\ atClose' = IF done THEN atClose ELSE lastSent
    /\ pc' = [pc EXCEPT ![p] = "wait"]
    /\ UNCHANGED <<disk, tmp, handle, maxUpdates, numUpdates, states, save, wg,
                   wlocked, rlocked, wpc, s, looping, arg, copy, calls, seed,
                   lastSent, failed, returned, finalFlushes>>

\* c.wg.Wait() returns once the worker has called Done; f returns, the once
\* is marked done and Shutdown returns.
WgWait(p) ==
    /\ pc[p] = "wait"
    /\ wg = 0
    /\ once' = "done"
    /\ returned' = IF returned < 2 THEN returned + 1 ELSE returned
    /\ pc' = [pc EXCEPT ![p] = "idle"]
    /\ UNCHANGED <<disk, tmp, handle, maxUpdates, numUpdates, states, save, done,
                   wg, wlocked, rlocked, wpc, s, looping, arg, copy, calls, seed,
                   lastSent, atClose, failed, finalFlushes, panicked>>

\* A caller enters Shutdown() while f is executing: c.once.Do makes it wait.
ShutdownBlock(p) ==
    /\ handle = "open"
    /\ pc[p] = "idle"
    /\ ~OnceFresh
    /\ ~OnceDone
    /\ pc' = [pc EXCEPT ![p] = "once"]
    /\ UNCHANGED <<disk, tmp, handle, maxUpdates, numUpdates, states, save, done,
                   once, wg, wlocked, rlocked, wpc, s, looping, arg, copy, calls,
                   seed, lastSent, atClose, failed, returned, finalFlushes,
                   panicked>>

\* c.once.Do returns without running f, to a caller that waited for f or to
\* one that enters Shutdown() after f has completed.
OnceSkip(p) ==
    /\ handle = "open"
    /\ pc[p] \in {"idle", "once"}
    /\ OnceDone
    /\ returned' = IF returned < 2 THEN returned + 1 ELSE returned
    /\ pc' = [pc EXCEPT ![p] = "idle"]
    /\ UNCHANGED <<disk, tmp, handle, maxUpdates, numUpdates, states, save, done,
                   once, wg, wlocked, rlocked, wpc, s, looping, arg, copy, calls,
                   seed, lastSent, atClose, failed, finalFlushes, panicked>>

\* ----------------------------------------------------------------------- Next
Next ==
    \/ NewCheckpointError
    \/ NewCheckpointOk
    \/ RunStart
    \/ SelectDone
    \/ SelectSave
    \/ SelectTimer
    \/ RunLock
    \/ RunStore
    \/ PersistClean
    \/ FlushCreate
    \/ FlushCreateFail
    \/ FlushWrite
    \/ FlushWriteFail
    \/ FlushRename
    \/ FlushRenameFail
    \/ \E p \in Callers : \E u \in EventLogState : Persist(p, u)
    \/ \E p \in Callers : \E u \in EventLogState : PersistBlock(p, u)
    \/ \E p \in Callers : PersistSend(p)
    \/ \E p \in Readers : StatesBlock(p)
    \/ \E p \in Readers : StatesCopy(p)
    \/ \E p \in Readers : StatesReturn(p)
    \/ \E p \in Readers : CallerClears(p)
    \/ \E p \in Callers : ShutdownFirst(p)
    \/ \E p \in Callers : WgWait(p)
    \/ \E p \in Callers : ShutdownBlock(p)
    \/ \E p \in Callers : OnceSkip(p)

Spec == Init /\ [][Next]_vars

\* Scheduling of the goroutines. A goroutine that can take its next step
\* takes it; a file-system call returns, with or without an error; a select
\* with several ready cases picks among them at random, so a case that is
\* ready again and again is picked in the end; a sender waiting on the channel
\* gets its turn.
Fairness ==
    /\ WF_vars(RunStart \/ RunLock \/ RunStore \/ PersistClean
               \/ FlushCreate \/ FlushCreateFail \/ FlushWrite
               \/ FlushWriteFail \/ FlushRename \/ FlushRenameFail)
    /\ SF_vars(SelectDone)
    /\ SF_vars(SelectSave)
    /\ \A p \in Callers : SF_vars(PersistSend(p))
    /\ \A p \in Callers : WF_vars(WgWait(p) \/ (pc[p] = "once" /\ OnceSkip(p)))
    /\ \A p \in Readers :
          WF_vars((pc[p] = "RLock" /\ StatesCopy(p)) \/ StatesReturn(p))

\* The runs on a path without a file (or with an unreadable one) and with
\* maxUpdates = 2.
FairInit == Init /\ disk \in {Absent, Corrupt} /\ maxUpdates = 2

FairSpec == FairInit /\ [][Next]_vars /\ Fairness

\* The steps of the runs in which Shutdown is never called.
DurableNext ==
    \/ NewCheckpointError
    \/ NewCheckpointOk
    \/ RunStart
    \/ SelectSave
    \/ SelectTimer
    \/ RunLock
    \/ RunStore
    \/ PersistClean
    \/ FlushCreate
    \/ FlushCreateFail
    \/ FlushWrite
    \/ FlushWriteFail
    \/ FlushRename
    \/ FlushRenameFail
    \/ \E p \in Callers : \E u \in EventLogState : Persist(p, u)
    \/ \E p \in Callers : \E u \in EventLogState : PersistBlock(p, u)
    \/ \E p \in Callers : PersistSend(p)
    \/ \E p \in Readers : StatesBlock(p)
    \/ \E p \in Readers : StatesCopy(p)
    \/ \E p \in Readers : StatesReturn(p)
    \/ \E p \in Readers : CallerClears(p)

\* Of those runs, the ones in which the timer's case is taken in the end when
\* the worker selects again and again, and the file-system calls of flush do
\* not fail for ever.
DurableFairness ==
    /\ SF_vars(SelectTimer)
    /\ SF_vars(FlushCreate)
    /\ SF_vars(FlushWrite)
    /\ SF_vars(FlushRename)

DurableSpec == FairInit /\ [][DurableNext]_vars /\ Fairness /\ DurableFairness

\* ===================================================================== claims
\* The entries of a file holding a complete document.
Entries(f) == {f.event_logs[i] : i \in DOMAIN f.event_logs}

\* The file holds a complete document with an entry equal to u.
InFile(f, u) == f.kind = "yaml" /\ u \in Entries(f)

\* The file holds a complete document.
Complete(f) == f.kind = "yaml"

\* Every update placed in c.save has been received and stored by the worker.
Drained == save = <<>> /\ wpc \notin {"lock", "store"}

\* C1: every update whose Persist call returned before Shutdown was called is
\* in the file once Shutdown has returned, when no flush failed.
C1_FlushedOnShutdown ==
    (returned > 0 /\ ~failed) =>
        \A n \in DOMAIN atClose : InFile(disk, atClose[n])

\* C2: every Persist call returns and the update it placed in c.save is
\* received by the worker: the worker never ends while an update waits in
\* c.save or a Persist call waits to send.
C2_Delivered ==
    wpc = "terminated" =>
        /\ save = <<>>
        /\ \A p \in Callers : pc[p] # "Persist"

\* C3: once the worker has drained the channel, the map (and the copy States
\* builds of it) holds for every name exactly the update sent last under that
\* name, and for the other names what NewCheckpoint loaded.
C3_LastWriteWins ==
    Drained =>
        /\ DOMAIN states = DOMAIN lastSent \cup DOMAIN seed
        /\ \A n \in DOMAIN states :
              states[n] = IF n \in DOMAIN lastSent THEN lastSent[n] ELSE seed[n]
        /\ \A r \in Readers : pc[r] = "RUnlock" => copy[r] = states

\* C3 witness: two calls under the name NewCheckpoint had loaded; the loaded
\* entry has been replaced by the later value, which a States call returns.
C3_Witness ==
    /\ Drained
    /\ calls = 2
    /\ "Sys" \in DOMAIN seed /\ seed["Sys"].RecordNumber = 1
    /\ DOMAIN lastSent = {"Sys"} /\ lastSent["Sys"].RecordNumber = 2
    /\ states["Sys"] = lastSent["Sys"]
    /\ \E r \in Readers : pc[r] = "RUnlock" /\ copy[r] = states

\* C4: every flush that succeeds leaves a file which, loaded again, gives
\* the map as it is at that flush.
C4_FlushWritesTable ==
    [][(wpc = "rename" /\ disk' # disk) =>
          /\ Complete(disk')
          /\ LoadStates(EmptyMap, Unmarshal(disk').event_logs) = states
          /\ Entries(disk') = {states[n] : n \in DOMAIN states}
          /\ states' = states]_vars

\* C4 witness: two updates were stored before one flush wrote both.
C4_Witness ==
    /\ calls = 2 /\ maxUpdates = 2 /\ numUpdates = 0 /\ ~failed
    /\ seed = EmptyMap
    /\ Complete(disk) /\ Len(disk.event_logs) = 2
    /\ wpc = "select"

\* C5: the file c.file is absent or a complete document at all times; it
\* changes only in the rename, which gives it the complete document of the
\* temporary file; a step of flush that fails leaves it as it was.
C5_AtomicReplace ==
    /\ [](handle = "open" => (disk = Absent \/ Complete(disk)))
    /\ [][disk' # disk =>
             /\ wpc = "rename"
             /\ Complete(tmp) /\ disk' = tmp
             /\ Entries(disk') = {states[n] : n \in DOMAIN states}]_vars
    /\ [][(failed' /\ ~failed) => disk' = disk]_vars

\* C5 witness: a write failed, the temporary file holds part of a document
\* and c.file still holds the older complete document.
C5_Witness ==
    /\ failed
    /\ tmp = Corrupt
    /\ Complete(disk)
    /\ Entries(disk) # {states[n] : n \in DOMAIN states}

\* C6: over any number of Shutdown calls c.done is closed once (no close of a
\* closed channel), flush is called at most once after the loop, and once
\* the first call has returned nothing changes the map, the files or the
\* worker.
C6_ShutdownOnce ==
    /\ [](~panicked /\ finalFlushes <= 1 /\ (done <=> once # "fresh"))
    /\ [][returned > 0 =>
             UNCHANGED <<states, disk, tmp, numUpdates, done, once, wg, wpc,
                         finalFlushes>>]_vars

\* C6 witness: two Shutdown calls have returned after a final flush.
C6_Witness == returned = 2 /\ finalFlushes = 1 /\ wpc = "terminated"

\* C7: no Shutdown call returns before the worker has ended, and every
\* Shutdown call returns.
C7_ShutdownBlocks ==
    /\ [](returned > 0 => (wpc = "terminated" /\ wg = 0))
    /\ [][\A p \in Callers :
             (pc[p] \in {"wait", "once"} /\ pc'[p] = "idle")
                 => wpc = "terminated"]_vars
    /\ \A p \in Callers : (pc[p] \in {"wait", "once"}) ~> (pc[p] = "idle")

\* C7 witness: two callers are inside Shutdown while the worker writes its
\* final flush and a third update waits in the channel.
C7_Witness ==
    /\ \E p, q \in Callers : pc[p] = "wait" /\ pc[q] = "once"
    /\ wpc = "write" /\ ~looping
    /\ save # <<>>

\* C8: NewCheckpoint on a path without a file gives an empty map; on a file
\* that cannot be read it gives the error, no map and no worker; on a
\* document it gives a map holding the document's entries, which States
\* returns, with c.numUpdates = 0.
C8_Bootstrap ==
    /\ disk = Absent => handle # "error"
    /\ handle = "error" =>
          /\ disk = Corrupt
          /\ wpc = "none" /\ wg = 0 /\ states = EmptyMap
    /\ (handle = "open" /\ calls = 0) =>
          /\ numUpdates = 0
          /\ disk # Corrupt
          /\ disk = Absent => states = EmptyMap
          /\ Complete(disk) =>
                /\ {states[n] : n \in DOMAIN states} = Entries(disk)
                /\ \A n \in DOMAIN states : states[n].Name = n
          /\ \A r \in Readers : pc[r] = "RUnlock" => copy[r] = states

\* C8 witness: NewCheckpoint loaded a document with an entry and States
\* returns that entry before any Persist call.
C8_Witness ==
    /\ handle = "open" /\ calls = 0
    /\ Complete(disk) /\ Len(disk.event_logs) = 1
    /\ \E r \in Readers :
          /\ pc[r] = "RUnlock"
          /\ DOMAIN copy[r] = {"Sys"}
          /\ copy[r]["Sys"] = disk.event_logs[1]

\* C9: persist with c.numUpdates = 0 creates no temporary file, leaves
\* c.file, the counter and the map as they are, and returns.
C9_CleanPersistNoop ==
    [][(wpc = "persist" /\ numUpdates = 0 /\ wpc' # wpc) =>
          /\ UNCHANGED <<tmp, disk, numUpdates, states, failed, finalFlushes>>
          /\ wpc' = IF looping THEN "select" ELSE "terminated"]_vars

\* C9 witness: the worker has ended after Persist calls, its last persist
\* found nothing to write and no file was ever created.
C9_Witness ==
    /\ wpc = "terminated" /\ finalFlushes = 0
    /\ tmp = Absent /\ disk = Absent
    /\ numUpdates = 0

\* A step in which persist returns after flush gave an error.
FlushFails ==
    /\ wpc \in {"persist", "write", "rename"}
    /\ numUpdates > 0
    /\ wpc' \in {"select", "terminated"}
    /\ ~(wpc = "rename" /\ tmp' = Absent)

\* C10: a flush that fails leaves the worker running, the map and the
\* callers as they are and the counter above 0; persist with a counter above
\* 0 calls flush again, and an update stored with the counter at or above
\* maxUpdates, a tick of the timer and the closing of c.done are each followed
\* by persist.
C10_FailedFlushRetried ==
    /\ [][FlushFails =>
             /\ wpc' = (IF looping THEN "select" ELSE "terminated")
             /\ UNCHANGED <<states, disk, pc, arg, handle, panicked>>
             /\ numUpdates' = numUpdates /\ numUpdates' > 0]_vars
    /\ [][(wpc = "store" /\ numUpdates >= maxUpdates /\ wpc' # wpc) =>
             wpc' = "persist"]_vars
    /\ [][(wpc = "select" /\ wpc' \notin {"select", "lock"}) =>
             wpc' = "persist"]_vars
    /\ [][(wpc = "persist" /\ numUpdates > 0 /\ wpc' # wpc) =>
             (wpc' = "write" \/ failed')]_vars

\* C10 witness: after a failed flush a further update has been stored, the
\* counter is above maxUpdates and persist is called again.
C10_Witness ==
    /\ failed
    /\ maxUpdates = 1 /\ numUpdates = 2
    /\ wpc = "persist" /\ looping

\* The map's values, as a set.
Table == {states[n] : n \in DOMAIN states}

\* C11: the map States returns is a copy taken at one moment: it equals
\* c.states when it is made, a later store by the worker does not change it
\* and a change the caller makes to it does not change c.states; and States
\* does not wait for the worker outside the store of one update: the worker
\* holds the lock only there, so the read lock is free while the worker
\* waits in select, flushes or has ended.
C11_StatesCopy ==
    /\ [](\A r \in Readers : pc[r] = "RUnlock" => copy[r] = states)
    /\ [][\A r \in Readers :
             (pc[r] = "held" /\ pc'[r] = "held") => Held(r)' = Held(r)]_vars
    /\ [][(handle = "open" /\ states' # states) => wpc = "store"]_vars
    /\ [](wlocked => wpc = "store")
    /\ [](\A r \in Readers :
             (handle = "open" /\ pc[r] \in {"idle", "RLock"}
                 /\ wpc \in {"select", "persist", "write", "rename",
                              "terminated"})
             => ENABLED StatesCopy(r))

\* C11 witness: a caller holds a map States returned during a flush, and the
\* worker has since stored an update the map does not have.
C11_Witness ==
    \E r \in Readers :
        /\ pc[r] = "held"
        /\ copy[r] # states
        /\ DOMAIN copy[r] # {}
        /\ wpc = "rename"

\* The file holds what the map holds: no file and an empty map, or a
\* complete document whose entries are the map's values.
TableOnDisk ==
    \/ disk = Absent /\ states = EmptyMap
    \/ Complete(disk) /\ Entries(disk) = Table

\* C12: inside the loop persist is called exactly when storing an update
\* brings c.numUpdates to maxUpdates (or above) or when the timer ticks, and
\* in no other case; a batch that is full is flushed before the next receive
\* from c.save, so with maxUpdates = 1 every stored update is in the file
\* when the worker selects again (unless the flush failed).
C12_TriggerPolicy ==
    /\ [][(wpc # "persist" /\ wpc' = "persist" /\ looping') =>
             \/ wpc = "store" /\ numUpdates' >= maxUpdates
             \/ wpc = "select" /\ UNCHANGED <<save, s, numUpdates, states>>]_vars
    /\ [][(wpc = "store" /\ wpc' # wpc) =>
             /\ numUpdates' = numUpdates + 1
             /\ (wpc' = "persist") <=> (numUpdates' >= maxUpdates)
             /\ (wpc' = "select") <=> (numUpdates' < maxUpdates)]_vars
    /\ []((wpc \in {"select", "lock", "store"} /\ ~failed) =>
             numUpdates < maxUpdates)
    /\ []((maxUpdates = 1 /\ wpc = "select" /\ ~failed) =>
             (numUpdates = 0 /\ TableOnDisk))

\* C12 witness: no file at first, maxUpdates = 1, one Persist call; the
\* worker is back in select and the file holds that one entry.
C12_Witness ==
    /\ maxUpdates = 1 /\ seed = EmptyMap /\ calls = 1 /\ ~failed
    /\ wpc = "select" /\ looping
    /\ Complete(disk) /\ Len(disk.event_logs) = 1
    /\ disk.event_logs[1] = lastSent[disk.event_logs[1].Name]

\* C13: c.save never holds more than one update; a Persist call that finds
\* it occupied waits without changing it, a call that finds it empty does
\* not wait, and a waiting call completes only on an empty channel, which it
\* fills with its own update.
C13_SingleSlot ==
    /\ [](Len(save) <= 1)
    /\ [](\A p \in Callers : pc[p] = "Persist" => arg[p] \in EventLogState)
    /\ [][calls' = calls + 1 =>
             IF save = <<>>
             THEN Len(save') = 1 /\ pc' = pc
             ELSE /\ save' = save
                  /\ \E p \in Callers : pc[p] = "idle" /\ pc'[p] = "Persist"]_vars
    /\ [][\A p \in Callers :
             (pc[p] = "Persist" /\ pc'[p] # "Persist") =>
                 /\ save = <<>>
                 /\ save' = <<arg[p]>>
                 /\ pc'[p] = "idle"]_vars

\* C13 witness: one update is in c.save and a second Persist call waits.
C13_Witness ==
    /\ Len(save) = 1
    /\ \E p \in Callers : pc[p] = "Persist" /\ arg[p] # save[1]

\* The updates handed over and not yet stored, oldest first: the one the
\* worker has received, then the one in c.save.
InFlight == (IF s = NoState THEN <<>> ELSE <<s>>) \o save

\* C14: updates are stored one at a time in the order of their sends: a send
\* adds its update behind those not yet stored, the worker stores the oldest
\* of them and nothing else, it has at most one update in hand, and two
\* updates under one name sent one after the other leave the later one in
\* the map.
C14_Fifo ==
    /\ [](Len(InFlight) <= 2)
    /\ []((s # NoState) <=> (wpc \in {"lock", "store"}))
    /\ [][Len(save') > Len(save) =>
             /\ InFlight' = Append(InFlight, save'[Len(save')])
             /\ states' = states]_vars
    /\ [][Len(InFlight') < Len(InFlight) =>
             /\ wpc = "store"
             /\ InFlight' = Tail(InFlight)
             /\ states' = Noted(states, Head(InFlight))]_vars
    /\ [][(handle = "open" /\ states' # states) =>
             Len(InFlight') < Len(InFlight)]_vars
    /\ [][InFlight' # InFlight =>
             (Len(save') > Len(save) \/ Len(InFlight') < Len(InFlight))]_vars
    /\ [](Drained => \A n \in DOMAIN lastSent : states[n] = lastSent[n])

\* C14 witness: two different updates under one name were sent one after
\* the other; the worker is storing the first while the second waits in
\* c.save.
C14_Witness ==
    /\ wpc = "store"
    /\ Len(InFlight) = 2
    /\ InFlight[1].Name = InFlight[2].Name
    /\ InFlight[1].RecordNumber > InFlight[2].RecordNumber

\* C15: while Shutdown has not been called and flush does not fail for
\* ever, whatever the map holds that the file does not hold reaches the
\* file: a map that differs from the file leads to a file equal to the map
\* (in the runs without a call of Shutdown), also with fewer than maxUpdates
\* updates and after failed flushes.
C15_EventuallyDurable ==
    /\ []~done
    /\ (handle = "open" /\ ~TableOnDisk) ~> TableOnDisk

\* C15 witness: one update arrived with maxUpdates = 2, a flush failed, and
\* without Shutdown a later flush put the update in the file.
C15_Witness ==
    /\ maxUpdates = 2 /\ calls = 1 /\ failed /\ ~done
    /\ numUpdates = 0 /\ wpc = "select"
    /\ Table # {} /\ Complete(disk) /\ Entries(disk) = Table

\* C16 as stated: when Shutdown has returned the file equals the map.
C16_PersistedAtShutdown == returned > 0 => TableOnDisk

\* C16: on the closing of c.done the worker leaves the loop and calls persist
\* once more; that persist calls flush (once) exactly when c.numUpdates is
\* above 0; then the worker ends. The worker ends with c.numUpdates above 0
\* only when that last flush failed, and when Shutdown has returned and the
\* last flush did not fail the file equals the map.
C16_ShutdownPath ==
    /\ [][(wpc = "select" /\ ~looping') =>
             (done /\ wpc' = "persist" /\ UNCHANGED <<numUpdates, states>>)]_vars
    /\ [][(wpc = "persist" /\ ~looping /\ wpc' # wpc) =>
             IF numUpdates > 0
             THEN finalFlushes' = finalFlushes + 1
             ELSE finalFlushes' = finalFlushes /\ wpc' = "terminated"]_vars
    /\ [][(~looping /\ wpc' = "terminated" /\ wpc # wpc') =>
             (wpc \in {"persist", "write", "rename"} /\ wg' = 0)]_vars
    /\ [](finalFlushes <= 1)
    /\ [](wpc = "terminated" => (done /\ ~looping /\ wg = 0))
    /\ []((wpc = "terminated" /\ numUpdates > 0) =>
             (failed /\ finalFlushes = 1))
    /\ []((returned > 0 /\ numUpdates = 0) => TableOnDisk)

\* C16 witness: one update was stored and, with maxUpdates = 2, not flushed
\* inside the loop; Shutdown has returned after a final flush that wrote the
\* map.
C16_Witness ==
    /\ returned > 0 /\ finalFlushes = 1 /\ numUpdates = 0
    /\ maxUpdates = 2 /\ calls = 1 /\ ~failed
    /\ Table # {} /\ seed = EmptyMap /\ TableOnDisk

\* C17: the worker that has ended (its c.wg.Done() has run) stays ended:
\* whatever Persist, States and Shutdown calls follow, the map, the counter,
\* the two files and the worker's position stay as they are and flush is not
\* called.
C17_TerminatedIsTerminal ==
    /\ []((handle = "open" /\ wg = 0) <=> wpc = "terminated")
    /\ [][wpc = "terminated" =>
             UNCHANGED <<wpc, wg, looping, s, states, numUpdates, disk, tmp,
                         failed, finalFlushes, wlocked, done>>]_vars

\* C17 witness: the worker has ended, a second Shutdown call has returned
\* since, and a Persist call waits on the channel an earlier one filled.
C17_Witness ==
    /\ wpc = "terminated" /\ returned = 2
    /\ save # <<>>
    /\ \E p \in Callers : pc[p] = "Persist"

\* C18 as stated: every goroutine that reads or writes the map holds c.lock
\* while it does: the worker storing an update, a caller of States copying
\* the map, and the worker in flush, about to list the map for the document.
C18_AllAccessLocked ==
    /\ wpc = "store" => wlocked
    /\ \A r \in Readers : pc[r] = "RUnlock" => r \in rlocked
    /\ wpc = "write" => wlocked

\* C18: the map is changed only by the worker, in its store step, holding
\* the write lock with no reader inside; a caller of States copies the map
\* holding the read lock with no writer inside; flush lists the map without
\* the lock, in the worker, so no store can run beside it; and only the
\* worker's persist and flush steps change the two files.
C18_LockPolicy ==
    /\ [][(handle = "open" /\ states' # states) =>
             (wpc = "store" /\ wlocked /\ rlocked = {})]_vars
    /\ [](wlocked => (wpc = "store" /\ rlocked = {}))
    /\ [](\A r \in Readers : (pc[r] = "RUnlock") <=> (r \in rlocked))
    /\ [][\A r \in Readers :
             copy'[r] # copy[r] =>
                 \/ r \in rlocked' /\ ~wlocked /\ copy'[r] = states
                 \/ pc[r] = "held" /\ states' = states]_vars
    /\ [](wpc \in {"persist", "write", "rename"} => ~wlocked)
    /\ [][(wpc \in {"persist", "write", "rename"}) => states' = states]_vars
    /\ [][(disk' # disk \/ tmp' # tmp) =>
             (wpc \in {"persist", "write", "rename"} /\ wpc' # wpc)]_vars

\* C18 witness: a caller of States holds the read lock on a map with an
\* entry while the worker, in flush, lists the map without the lock.
C18_Witness ==
    /\ wpc = "write" /\ ~wlocked /\ Table # {}
    /\ \E r \in Readers : pc[r] = "RUnlock" /\ r \in rlocked

\* The entries of a complete document are in strictly ascending order of
\* their names (so no name is listed twice).
Ascending(f) ==
    \A i, j \in DOMAIN f.event_logs :
        i < j => NameIndex(f.event_logs[i].Name) < NameIndex(f.event_logs[j].Name)

\* C19: the document flush writes lists the map's entries, one for every
\* name of the map and no other, in strictly ascending order of the names;
\* the map alone decides the sequence, so equal maps give equal sequences
\* whatever the order of the updates. The files hold nothing else.
C19_SortedSnapshot ==
    /\ [][(wpc = "write" /\ wpc' = "rename") =>
             /\ Complete(tmp')
             /\ Ascending(tmp')
             /\ Len(tmp'.event_logs) = Cardinality(DOMAIN states)
             /\ \A i \in DOMAIN tmp'.event_logs :
                   /\ tmp'.event_logs[i].Name \in DOMAIN states
                   /\ tmp'.event_logs[i] = states[tmp'.event_logs[i].Name]]_vars
    /\ [](Complete(tmp) => Ascending(tmp))
    /\ [](Complete(disk) => Ascending(disk))

\* C19 witness: the update for "Sys" arrived and was flushed before the one
\* for "App" arrived; the next document lists "App" first.
C19_Witness ==
    /\ seed = EmptyMap /\ wpc = "rename"
    /\ Complete(disk) /\ Len(disk.event_logs) = 1
    /\ disk.event_logs[1].Name = "Sys"
    /\ Complete(tmp) /\ Len(tmp.event_logs) = 2
    /\ tmp.event_logs[1].Name = "App" /\ tmp.event_logs[2].Name = "Sys"

\* C20: with c.numUpdates = 0 the file equals the map (no file and an empty
\* map, or a document with the map's entries), wherever the worker is: in
\* select, in a persist that returns without writing, or ended; and
\* c.numUpdates is above maxUpdates only after a flush has failed.
C20_DirtyFlag ==
    /\ (handle = "open" /\ numUpdates = 0) => TableOnDisk
    /\ numUpdates > maxUpdates => failed
    /\ numUpdates >= 0

\* C20 witness: a flush failed and a later one succeeded; the worker is back
\* in select with the counter at 0 and both updates in the file.
C20_Witness ==
    /\ failed /\ wpc = "select" /\ numUpdates = 0
    /\ seed = EmptyMap /\ calls = 2
    /\ Complete(disk) /\ Len(disk.event_logs) = 2 /\ Entries(disk) = Table

====
